---- MODULE Spec2Model ----
(***************************************************************************)
(* Model of the WebTools service worker (src/sw.js): scope resolution,     *)
(* install (precache), activate (stale-cache eviction) and the fetch       *)
(* router with its two strategies (cache-first, navigation fallback).      *)
(*                                                                         *)
(* Strings are sequences of tokens, so that startsWith / endsWith / regex  *)
(* prefix tests and string concatenation are computed, not assumed.        *)
(* Every awaited browser operation (network fetch, caches.open,            *)
(* cache.match, cache.put, cache.addAll, caches.keys, caches.delete) is a  *)
(* step that either resolves or rejects.                                   *)
(***************************************************************************)
EXTENDS Integers, Sequences, FiniteSets, TLC

\* ------------------------------------------------------------------ bounds
\* Number of distinct bodies the network may answer with.
MaxBody == 2

\* Number of fetch events the worker receives.
MaxEvents == 2

\* ----------------------------------------------------------------- strings
startsWith(s, p) == Len(p) <= Len(s) /\ SubSeq(s, 1, Len(p)) = p

endsWith(s, p) == Len(p) <= Len(s) /\ SubSeq(s, Len(s) - Len(p) + 1, Len(s)) = p

\* ------------------------------------------------------ module-level consts
VERSION == "v1.0.2"

CACHE_NAME == <<"webtools-cache-", VERSION>>

\* self.location: the origin the worker script is served from.
SELF_ORIGIN == <<"https://", "app.example">>

\* pathname of the registration scope -> SCOPE_PATH (a URL pathname always
\* starts with "/").
ScopePaths ==
  { <<"/">>, <<"/", "WebTools">>, <<"/", "WebTools", "/">> }

\* BaseOf appending the separator without looking at the end of the path.
BaseOfAppend(scopePath) == scopePath \o <<"/">>

\* const BASE = SCOPE_PATH.endsWith("/") ? SCOPE_PATH : SCOPE_PATH + "/"
BaseOf(scopePath) ==
  IF endsWith(scopePath, <<"/">>) THEN scopePath ELSE scopePath \o <<"/">>

\* PRECACHE_FILES without "index.html".
PrecacheFilesNoShell == << <<>>, <<"manifest.webmanifest">>, <<"gif.worker.js">> >>

PRECACHE_FILES ==
  << <<>>, <<"index.html">>, <<"manifest.webmanifest">>, <<"gif.worker.js">> >>

\* A relative URL given to the cache API resolves against the worker's origin.
Resolve(path) == SELF_ORIGIN \o path

PRECACHE_URLS(base) == [i \in DOMAIN PRECACHE_FILES |-> base \o PRECACHE_FILES[i]]

\* Each pattern is /^https:\/\/<host>\/?/i : anchored at the start, the
\* trailing slash optional, so it accepts exactly the URLs that start with
\* "https://<host>".
RUNTIME_CDN_PATTERNS ==
  << <<"https://", "cdn.tailwindcss.com">>,
     <<"https://", "fonts.googleapis.com">>,
     <<"https://", "fonts.gstatic.com">>,
     <<"https://", "img.icons8.com">>,
     <<"https://", "cdn.jsdelivr.net">>,
     <<"https://", "cdnjs.cloudflare.com">> >>

RegexTest(re, url) == startsWith(url, re)

\* ------------------------------------------------------------------- URLs
\* new URL(href): the origin is everything before the first "/" token, the
\* pathname everything from it on.
RECURSIVE PathStart(_, _)
PathStart(href, i) ==
  IF i > Len(href) THEN i
  ELSE IF href[i] = "/" THEN i
  ELSE PathStart(href, i + 1)

UrlOrigin(href) == SubSeq(href, 1, PathStart(href, 1) - 1)

UrlPathname(href) == SubSeq(href, PathStart(href, 1), Len(href))

Urls ==
  { SELF_ORIGIN \o <<"/", "WebTools", "/", "index.html">>,
    SELF_ORIGIN \o <<"/", "WebTools", "/", "app.js">>,
    SELF_ORIGIN \o <<"/", "index.html">>,
    <<"https://", "cdn.jsdelivr.net", "/", "WebTools", "/", "lib.js">>,
    <<"https://", "api.example", "/", "WebTools", "/", "data">> }

Requests == [method : {"GET", "POST"}, mode : {"navigate", "no-cors"}, url : Urls]

\* -------------------------------------------------------------- responses
Bodies == 1 .. MaxBody

\* What the network can answer to a request: a same-origin or navigation
\* request gets a readable ("basic") response with some status, a
\* cross-origin no-cors request an opaque one (status 0).
NetResponses(req) ==
  IF req.mode = "navigate" \/ UrlOrigin(req.url) = SELF_ORIGIN
  THEN [status : {200}, type : {"basic"}, ctype : {"net"}, body : Bodies]
         \cup [status : {404}, type : {"basic"}, ctype : {"net"}, body : {1}]
  ELSE [status : {0}, type : {"opaque"}, ctype : {"net"}, body : Bodies]

\* The body "<h1>...</h1><p>...</p>" of the synthesized offline page; the
\* bodies the network serves are 1 .. MaxBody.
OfflineNotice == 0

\* new Response(OfflineNotice, {status: 200, headers: {"Content-Type": "text/html; charset=utf-8"}})
OfflineResponse ==
  [status |-> 200, type |-> "default", ctype |-> "text/html; charset=utf-8",
   body |-> OfflineNotice]

\* The value of a variable holding no response (undefined).
Undefined == [status |-> 0, type |-> "undefined", ctype |-> "", body |-> 0]

\* A failed network fetch (the promise of fetch() rejects).
NetworkError == [status |-> 0, type |-> "error", ctype |-> "", body |-> 0]

NoRequest == [method |-> "", mode |-> "", url |-> <<>>]

\* What the build serves for a precache file at install time.
PrecacheResponse ==
  [status |-> 200, type |-> "basic", ctype |-> "net", body |-> 1]

\* ------------------------------------------------------------ cache stores
\* The stores that may exist when the worker starts: those of two earlier
\* versions, one of another script, and the current version's own (left
\* empty by an install attempt that failed).
StoreNames ==
  { CACHE_NAME, <<"webtools-cache-", "v1.0.1">>, <<"webtools-cache-", "v1.0.0">>,
    <<"fonts-cache">> }

\* A store left by an earlier version or another script has one entry.
OldStore == [k \in {Resolve(<<"/", "old.js">>)} |-> PrecacheResponse]

EmptyStore == [k \in {} |-> PrecacheResponse]

\* caches.open(name): creates the store when it does not exist.
Open(cs, name) ==
  IF name \in DOMAIN cs THEN cs
  ELSE [n \in DOMAIN cs \cup {name} |-> IF n = name THEN EmptyStore ELSE cs[n]]

\* Put keeping the entry a key already has (the first write wins).
PutIfAbsent(cs, name, key, resp) ==
  IF key \in DOMAIN cs[name] THEN cs
  ELSE [cs EXCEPT ![name] =
          [k \in DOMAIN cs[name] \cup {key} |-> IF k = key THEN resp ELSE cs[name][k]]]

\* cache.put(key, response) on the store `name`.
Put(cs, name, key, resp) ==
  [cs EXCEPT ![name] =
     [k \in DOMAIN cs[name] \cup {key} |-> IF k = key THEN resp ELSE cs[name][k]]]

\* cache.match(key): the entry, or undefined.
Match(cs, name, key) ==
  IF name \in DOMAIN cs /\ key \in DOMAIN cs[name] THEN cs[name][key] ELSE Undefined

\* caches.delete(name)
Delete(cs, name) == [n \in DOMAIN cs \ {name} |-> cs[n]]

VARIABLES
  SCOPE_PATH,   \* pathname of the registration scope
  BASE,         \* the Base Prefix
  caches,       \* CacheStorage: store name -> (key -> response)
  installPc,    \* "idle", "opened", "added", "done", "rejected"
  added,        \* outcome of each precache fetch of addAll (<<>> before it)
  skipWaiting,  \* whether self.skipWaiting() was called
  activatePc,   \* "idle", "deleting", "claiming", "done", "rejected"
  deletions,    \* stale store name -> "pending" | "deleted" | "failed"
  claimed,      \* whether clients.claim() was called
  events,       \* number of fetch events dispatched so far
  handlers      \* the fetch handlers in flight or last finished, one per slot

vars ==
  <<SCOPE_PATH, BASE, caches, installPc, added, skipWaiting, activatePc,
    deletions, claimed, events, handlers>>

lifecycleVars == <<installPc, added, skipWaiting, activatePc, deletions, claimed>>

\* Two handler slots: up to two fetch handlers are in flight at a time.
H == {1, 2}

IdleHandler ==
  [pc |-> "idle", req |-> NoRequest, strategy |-> "", responded |-> 0,
   net |-> "", fetches |-> 0, puts |-> 0, stored |-> FALSE, fresh |-> Undefined,
   cached |-> Undefined, result |-> Undefined, after |-> FALSE]

Init ==
  /\ SCOPE_PATH \in ScopePaths
  /\ BASE = BaseOf(SCOPE_PATH)
  /\ \E S \in SUBSET StoreNames :
       caches = [n \in S |-> IF n = CACHE_NAME THEN EmptyStore ELSE OldStore]
  /\ installPc = "idle"
  /\ added = <<>>
  /\ skipWaiting = FALSE
  /\ activatePc = "idle"
  /\ deletions = [n \in {} |-> "pending"]
  /\ claimed = FALSE
  /\ events = 0
  /\ handlers = [h \in H |-> IdleHandler]

\* An upgrade of the GitHub Pages deployment (scope ".../WebTools"): the
\* store of the previous version is the only one there.
InitUpgrade ==
  /\ Init
  /\ SCOPE_PATH = <<"/", "WebTools">>
  /\ DOMAIN caches = {<<"webtools-cache-", "v1.0.1">>}

\* ----------------------------------------------------------------- install
Ok(resp) == resp # NetworkError /\ resp.status >= 200 /\ resp.status <= 299

\* What one precache fetch of addAll can produce.
PrecacheOutcomes ==
  { PrecacheResponse, [PrecacheResponse EXCEPT !.status = 404], NetworkError }

\* AddAll without the batch: each response that is ok is stored on its own.
AddAllPartial(cs, name, urls, out, stored) ==
  [cs EXCEPT ![name] =
     [k \in DOMAIN cs[name] \cup {Resolve(urls[i]) : i \in {j \in DOMAIN urls : Ok(out[j])}} |->
        IF \E i \in DOMAIN urls : Resolve(urls[i]) = k /\ Ok(out[i])
        THEN out[CHOOSE i \in DOMAIN urls : Resolve(urls[i]) = k /\ Ok(out[i])]
        ELSE cs[name][k]]]

\* cache.addAll(urls): all the fetched responses are stored as one batch, and
\* only if every one of them is ok and the store takes the batch; otherwise
\* the store is left as it was.
AddAll(cs, name, urls, out, stored) ==
  IF (\A i \in DOMAIN urls : Ok(out[i])) /\ stored
  THEN [cs EXCEPT ![name] =
          [k \in DOMAIN cs[name] \cup {Resolve(urls[i]) : i \in DOMAIN urls} |->
             IF \E i \in DOMAIN urls : Resolve(urls[i]) = k
             THEN out[CHOOSE i \in DOMAIN urls : Resolve(urls[i]) = k]
             ELSE cs[name][k]]]
  ELSE cs

\* AddAllSettles with the promise fulfilled whatever happened.
AddAllSettlesFulfilled(out, stored) == "added"

\* How the promise of cache.addAll(urls) settles: fulfilled when every
\* response is ok and the store took the batch, rejected otherwise.
AddAllSettles(out, stored) ==
  IF (\A i \in DOMAIN out : Ok(out[i])) /\ stored THEN "added" ELSE "rejected"

\* caches.open(CACHE_NAME)
InstallOpen ==
  /\ installPc = "idle"
  /\ \/ /\ caches' = Open(caches, CACHE_NAME)
        /\ installPc' = "opened"
     \/ /\ installPc' = "rejected"
        /\ UNCHANGED caches
  /\ UNCHANGED <<SCOPE_PATH, BASE, added, skipWaiting, activatePc, deletions,
                 claimed, events, handlers>>

\* .then((cache) => cache.addAll(PRECACHE_URLS))
InstallAddAll ==
  /\ installPc = "opened"
  /\ \E out \in [DOMAIN PRECACHE_FILES -> PrecacheOutcomes], stored \in BOOLEAN :
       /\ added' = out
       /\ caches' = AddAll(caches, CACHE_NAME, PRECACHE_URLS(BASE), out, stored)
       /\ installPc' = AddAllSettles(out, stored)
  /\ UNCHANGED <<SCOPE_PATH, BASE, skipWaiting, activatePc, deletions, claimed,
                 events, handlers>>

\* .then(() => self.skipWaiting())
InstallSkipWaiting ==
  /\ installPc = "added"
  /\ skipWaiting' = TRUE
  /\ installPc' = "done"
  /\ UNCHANGED <<SCOPE_PATH, BASE, caches, added, activatePc, deletions, claimed,
                 events, handlers>>

\* ---------------------------------------------------------------- activate
\* Stale without the test key !== CACHE_NAME.
StaleAnyVersion(keys) == {key \in keys : startsWith(key, <<"webtools-cache-">>)}

\* Stale without the test of the prefix.
StaleAnyPrefix(keys) == {key \in keys : key # CACHE_NAME}

\* keys.filter((key) => key.startsWith("webtools-cache-") && key !== CACHE_NAME)
Stale(keys) == {key \in keys : startsWith(key, <<"webtools-cache-">>) /\ key # CACHE_NAME}

\* const keys = await caches.keys(); the deletions are all started at once.
ActivateKeys ==
  /\ installPc = "done"
  /\ activatePc = "idle"
  /\ \/ /\ deletions' = [key \in Stale(DOMAIN caches) |-> "pending"]
        /\ activatePc' = "deleting"
     \/ /\ activatePc' = "rejected"
        /\ UNCHANGED deletions
  /\ UNCHANGED <<SCOPE_PATH, BASE, caches, installPc, added, skipWaiting, claimed,
                 events, handlers>>

\* One caches.delete(key) settles: the store is gone, or the deletion failed.
DeleteSettles(key) ==
  /\ key \in DOMAIN deletions
  /\ deletions[key] = "pending"
  /\ \/ /\ caches' = Delete(caches, key)
        /\ deletions' = [deletions EXCEPT ![key] = "deleted"]
     \/ /\ deletions' = [deletions EXCEPT ![key] = "failed"]
        /\ UNCHANGED caches
  /\ UNCHANGED <<SCOPE_PATH, BASE, installPc, added, skipWaiting, activatePc,
                 claimed, events, handlers>>

\* Promise.all(deletions): fulfilled once all are, rejected as soon as one is.
AllSettled(ds) ==
  IF \E key \in DOMAIN ds : ds[key] = "failed" THEN "rejected"
  ELSE IF \A key \in DOMAIN ds : ds[key] = "deleted" THEN "fulfilled"
  ELSE "pending"

\* await Promise.all(deletions)
ActivateAwaitAll ==
  /\ activatePc = "deleting"
  /\ AllSettled(deletions) # "pending"
  /\ activatePc' = IF AllSettled(deletions) = "fulfilled" THEN "claiming" ELSE "rejected"
  /\ UNCHANGED <<SCOPE_PATH, BASE, caches, installPc, added, skipWaiting, deletions,
                 claimed, events, handlers>>

\* await self.clients.claim()
ActivateClaim ==
  /\ activatePc = "claiming"
  /\ claimed' = TRUE
  /\ activatePc' = "done"
  /\ UNCHANGED <<SCOPE_PATH, BASE, caches, installPc, added, skipWaiting, deletions,
                 events, handlers>>

\* The worker is active (and receives fetch events) once the activate
\* event's promise has settled, fulfilled or not.
Active == activatePc \in {"done", "rejected"}

\* ------------------------------------------------------------ fetch router
\* Route without the test of the method.
RouteAnyMethod(req, base) ==
  IF req.mode = "navigate" THEN "navigate"
  ELSE IF UrlOrigin(req.url) = SELF_ORIGIN /\ startsWith(UrlPathname(req.url), base)
    THEN "same-origin"
  ELSE IF \E i \in DOMAIN RUNTIME_CDN_PATTERNS : RegexTest(RUNTIME_CDN_PATTERNS[i], req.url)
    THEN "cdn"
  ELSE "default"

\* Route with the same-origin test moved before the navigation test.
RouteSameOriginFirst(req, base) ==
  IF req.method # "GET" THEN "non-get"
  ELSE IF UrlOrigin(req.url) = SELF_ORIGIN /\ startsWith(UrlPathname(req.url), base)
    THEN "same-origin"
  ELSE IF req.mode = "navigate" THEN "navigate"
  ELSE IF \E i \in DOMAIN RUNTIME_CDN_PATTERNS : RegexTest(RUNTIME_CDN_PATTERNS[i], req.url)
    THEN "cdn"
  ELSE "default"

\* The branch of the fetch listener a request takes.
Route(req, base) ==
  IF req.method # "GET" THEN "non-get"
  ELSE IF req.mode = "navigate" THEN "navigate"
  ELSE IF UrlOrigin(req.url) = SELF_ORIGIN /\ startsWith(UrlPathname(req.url), base)
    THEN "same-origin"
  ELSE IF \E i \in DOMAIN RUNTIME_CDN_PATTERNS : RegexTest(RUNTIME_CDN_PATTERNS[i], req.url)
    THEN "cdn"
  ELSE "default"

\* The key of the cached application shell: BASE + "index.html".
ShellKey(base) == Resolve(base \o <<"index.html">>)

Finished(r) == r.pc \in {"done", "rejected"}

Set(h, r) == handlers' = [handlers EXCEPT ![h] = r]

\* The slot a new fetch event takes: the first one never used, or, when all
\* have been used, one whose handler has finished.
FreeSlot(h) ==
  IF \E g \in H : handlers[g].pc = "idle"
  THEN handlers[h].pc = "idle" /\ \A g \in H : g < h => handlers[g].pc # "idle"
  ELSE Finished(handlers[h])

Other(h) == CHOOSE g \in H : g # h

\* A new handler r takes slot h. Each handler carries `after`: whether the
\* handler now in the other slot had finished before this one was dispatched.
Dispatch(h, r) ==
  handlers' = [g \in H |-> IF g = h THEN r ELSE [handlers[g] EXCEPT !.after = FALSE]]

\* The synchronous part of the fetch listener: it returns without
\* respondWith (pass-through), or calls respondWith once with the promise of
\* the navigation fallback or of cacheFirst.
FetchEvent(h, req) ==
  /\ Active
  /\ events < MaxEvents
  /\ events' = events + 1
  /\ FreeSlot(h)
  /\ LET r == [IdleHandler EXCEPT !.req = req, !.strategy = Route(req, BASE),
                                    !.after = Finished(handlers[Other(h)])]
     IN  \/ /\ r.strategy \in {"non-get", "default"}
            /\ Dispatch(h, [r EXCEPT !.pc = "done"])
         \/ /\ r.strategy = "navigate"
            /\ Dispatch(h, [r EXCEPT !.responded = @ + 1, !.pc = "nav_fetch"])
         \/ /\ r.strategy \in {"same-origin", "cdn"}
            /\ Dispatch(h, [r EXCEPT !.responded = @ + 1, !.pc = "cf_open"])
  /\ UNCHANGED <<SCOPE_PATH, BASE, caches, lifecycleVars>>

\* ---------------------------------------------------- navigation fallback
\* const fresh = await fetch(req)
NavFetch(h) ==
  /\ handlers[h].pc = "nav_fetch"
  /\ LET r == [handlers[h] EXCEPT !.fetches = @ + 1]
     IN  \/ \E resp \in NetResponses(r.req) :
              Set(h, [r EXCEPT !.net = "ok", !.fresh = resp, !.pc = "nav_open"])
         \/ Set(h, [r EXCEPT !.net = "failed", !.pc = "nav_catch_open"])
  /\ UNCHANGED <<SCOPE_PATH, BASE, caches, lifecycleVars, events>>

\* const cache = await caches.open(CACHE_NAME)   (inside the outer try)
NavOpen(h) ==
  /\ handlers[h].pc = "nav_open"
  /\ \/ /\ caches' = Open(caches, CACHE_NAME)
        /\ Set(h, [handlers[h] EXCEPT !.pc = "nav_put"])
     \/ /\ Set(h, [handlers[h] EXCEPT !.pc = "nav_catch_open"])
        /\ UNCHANGED caches
  /\ UNCHANGED <<SCOPE_PATH, BASE, lifecycleVars, events>>

\* try { await cache.put(BASE + "index.html", fresh.clone()) } catch (_) {}
\* return fresh
NavPut(h) ==
  /\ handlers[h].pc = "nav_put"
  /\ LET r == [handlers[h] EXCEPT !.puts = @ + 1, !.pc = "done"]
     IN  \/ /\ caches' = Put(caches, CACHE_NAME, ShellKey(BASE), r.fresh)
            /\ Set(h, [r EXCEPT !.stored = TRUE, !.result = r.fresh])
         \/ /\ UNCHANGED caches
            /\ Set(h, [r EXCEPT !.result = r.fresh])
  /\ UNCHANGED <<SCOPE_PATH, BASE, lifecycleVars, events>>

\* catch (_) { const cache = await caches.open(CACHE_NAME)
NavCatchOpen(h) ==
  /\ handlers[h].pc = "nav_catch_open"
  /\ \/ /\ caches' = Open(caches, CACHE_NAME)
        /\ Set(h, [handlers[h] EXCEPT !.pc = "nav_catch_match"])
     \/ /\ Set(h, [handlers[h] EXCEPT !.pc = "rejected"])
        /\ UNCHANGED caches
  /\ UNCHANGED <<SCOPE_PATH, BASE, lifecycleVars, events>>

\* const cached = await cache.match(BASE + "index.html")
\* if (cached) return cached; return new Response(...)
NavCatchMatch(h) ==
  /\ handlers[h].pc = "nav_catch_match"
  /\ \/ LET cached == Match(caches, CACHE_NAME, ShellKey(BASE))
        IN  Set(h, [handlers[h] EXCEPT
                      !.cached = cached,
                      !.result = IF cached # Undefined THEN cached ELSE OfflineResponse,
                      !.pc = "done"])
     \/ Set(h, [handlers[h] EXCEPT !.pc = "rejected"])
  /\ UNCHANGED <<SCOPE_PATH, BASE, caches, lifecycleVars, events>>

\* -------------------------------------------------------------- cacheFirst
\* const cache = await caches.open(cacheName)
CfOpen(h) ==
  /\ handlers[h].pc = "cf_open"
  /\ \/ /\ caches' = Open(caches, CACHE_NAME)
        /\ Set(h, [handlers[h] EXCEPT !.pc = "cf_match"])
     \/ /\ Set(h, [handlers[h] EXCEPT !.pc = "rejected"])
        /\ UNCHANGED caches
  /\ UNCHANGED <<SCOPE_PATH, BASE, lifecycleVars, events>>

\* AfterMatch going on to the network even on a hit.
AfterMatchRevalidate(r, cached) == [r EXCEPT !.cached = cached, !.pc = "cf_fetch"]

\* const cached = ...; if (cached) return cached; otherwise on to fetch
AfterMatch(r, cached) ==
  IF cached # Undefined
  THEN [r EXCEPT !.cached = cached, !.result = cached, !.pc = "done"]
  ELSE [r EXCEPT !.pc = "cf_fetch"]

\* const cached = await cache.match(event.request); if (cached) return cached
CfMatch(h) ==
  /\ handlers[h].pc = "cf_match"
  /\ \/ Set(h, AfterMatch(handlers[h], Match(caches, CACHE_NAME, handlers[h].req.url)))
     \/ Set(h, [handlers[h] EXCEPT !.pc = "rejected"])
  /\ UNCHANGED <<SCOPE_PATH, BASE, caches, lifecycleVars, events>>

\* Cacheable without the test of the status and the type.
CacheableAny(response) == response # Undefined

\* response.status === 200 || response.type === "opaque"
Cacheable(response) == response.status = 200 \/ response.type = "opaque"

\* OnNetworkFailure answering with nothing instead of throwing.
OnNetworkFailureSwallow(r) == [r EXCEPT !.net = "failed", !.pc = "done"]

\* catch (err) { if (cached) return cached; throw err }
OnNetworkFailure(r) ==
  IF r.cached # Undefined
  THEN [r EXCEPT !.net = "failed", !.result = r.cached, !.pc = "done"]
  ELSE [r EXCEPT !.net = "failed", !.pc = "rejected"]

\* try { const response = await fetch(event.request); ... }
\* catch (err) { if (cached) return cached; throw err }
CfFetch(h) ==
  /\ handlers[h].pc = "cf_fetch"
  /\ LET r == [handlers[h] EXCEPT !.fetches = @ + 1]
     IN  \/ \E resp \in NetResponses(r.req) :
              IF Cacheable(resp)
              THEN Set(h, [r EXCEPT !.net = "ok", !.fresh = resp, !.pc = "cf_put"])
              ELSE Set(h, [r EXCEPT !.net = "ok", !.fresh = resp, !.result = resp,
                                    !.pc = "done"])
         \/ Set(h, OnNetworkFailure(r))
  /\ UNCHANGED <<SCOPE_PATH, BASE, caches, lifecycleVars, events>>

\* CfStore writing under the key of the application shell.
CfStoreShell(cs, r) == Put(cs, CACHE_NAME, Resolve(BASE \o <<"index.html">>), r.fresh)

\* CfStore writing every response under one key, whatever the request.
CfStoreOneKey(cs, r) == Put(cs, CACHE_NAME, Resolve(BASE), r.fresh)

\* cache.put(event.request, response.clone())
CfStore(cs, r) == Put(cs, CACHE_NAME, r.req.url, r.fresh)

\* try { await cache.put(event.request, response.clone()) } catch (_) {}
\* return response
CfPut(h) ==
  /\ handlers[h].pc = "cf_put"
  /\ LET r == [handlers[h] EXCEPT !.puts = @ + 1, !.pc = "done"]
     IN  \/ /\ caches' = CfStore(caches, r)
            /\ Set(h, [r EXCEPT !.stored = TRUE, !.result = r.fresh])
         \/ /\ UNCHANGED caches
            /\ Set(h, [r EXCEPT !.result = r.fresh])
  /\ UNCHANGED <<SCOPE_PATH, BASE, lifecycleVars, events>>

\* ------------------------------------------------------------ specification
Lifecycle ==
  \/ InstallOpen
  \/ InstallAddAll
  \/ InstallSkipWaiting
  \/ ActivateKeys
  \/ \E key \in StoreNames : DeleteSettles(key)
  \/ ActivateAwaitAll
  \/ ActivateClaim

Fetch ==
  \/ \E h \in H, req \in Requests : FetchEvent(h, req)
  \/ \E h \in H : NavFetch(h)
  \/ \E h \in H : NavOpen(h)
  \/ \E h \in H : NavPut(h)
  \/ \E h \in H : NavCatchOpen(h)
  \/ \E h \in H : NavCatchMatch(h)
  \/ \E h \in H : CfOpen(h)
  \/ \E h \in H : CfMatch(h)
  \/ \E h \in H : CfFetch(h)
  \/ \E h \in H : CfPut(h)

Next == Lifecycle \/ Fetch

\* The worker's life after an upgrade from the previous version.
Spec == InitUpgrade /\ [][Next]_vars

\* Install and activate over any set of stores found at start.
SpecLifecycle == Init /\ [][Lifecycle]_vars

\* ================================================================== claims
InFlight(r) == r.pc \notin {"idle", "done", "rejected"}

UnderBase(req) ==
  UrlOrigin(req.url) = SELF_ORIGIN /\ startsWith(UrlPathname(req.url), BASE)

MatchesPattern(req) ==
  \E i \in DOMAIN RUNTIME_CDN_PATTERNS : startsWith(req.url, RUNTIME_CDN_PATTERNS[i])

PassedThrough(r) ==
  r.pc = "done" /\ r.responded = 0 /\ r.fetches = 0 /\ r.puts = 0 /\ r.result = Undefined

\* C1: a request whose method is not GET, whatever its mode and URL, is
\* passed through: the listener returns without respondWith, fetches nothing,
\* writes nothing, and the step that handles it leaves every store as it was.
C1_NonGetPassThrough ==
  [][\A h \in H :
       (handlers'[h] # handlers[h] /\ handlers'[h].req.method # "GET")
         => (PassedThrough(handlers'[h]) /\ caches' = caches)]_vars

\* C1 witness: a POST navigation to a URL matching a runtime pattern was handled.
C1_Witness ==
  \E h \in H :
    /\ handlers[h].pc = "done"
    /\ handlers[h].req.method = "POST"
    /\ handlers[h].req.mode = "navigate"
    /\ MatchesPattern(handlers[h].req)

\* C2: every request gets at most one substituted response, and its strategy
\* follows the ordered decision non-GET, navigation, same origin under the
\* Base Prefix, Runtime Pattern, pass-through; a GET navigation is never
\* handled by cache-first.
C2_RouterDecision ==
  \A h \in H :
    LET r == handlers[h]
        cf == r.pc \in {"cf_open", "cf_match", "cf_fetch", "cf_put"}
        nav == r.pc \in {"nav_fetch", "nav_open", "nav_put", "nav_catch_open",
                         "nav_catch_match"}
    IN  r.pc # "idle" =>
          /\ r.responded <= 1
          /\ r.req.method # "GET" => PassedThrough(r)
          /\ (r.req.method = "GET" /\ r.req.mode = "navigate")
               => (r.strategy = "navigate" /\ r.responded = 1 /\ ~cf)
          /\ (r.req.method = "GET" /\ r.req.mode # "navigate" /\ UnderBase(r.req))
               => (r.strategy = "same-origin" /\ r.responded = 1 /\ ~nav)
          /\ (r.req.method = "GET" /\ r.req.mode # "navigate" /\ ~UnderBase(r.req)
                /\ MatchesPattern(r.req))
               => (r.strategy = "cdn" /\ r.responded = 1 /\ ~nav)
          /\ (r.req.method = "GET" /\ r.req.mode # "navigate" /\ ~UnderBase(r.req)
                /\ ~MatchesPattern(r.req))
               => PassedThrough(r)

\* C2 witness: a GET navigation to a same-origin URL under the Base Prefix
\* was answered by the navigation fallback.
C2_Witness ==
  \E h \in H :
    /\ handlers[h].pc = "done"
    /\ handlers[h].req.method = "GET"
    /\ handlers[h].req.mode = "navigate"
    /\ UnderBase(handlers[h].req)
    /\ handlers[h].fetches = 1

\* C3 (as claimed): the promise a GET navigation passes to respondWith never
\* rejects, whatever the network and the cache store do.
C3_NavigationNeverRejects ==
  \A h \in H :
    (handlers[h].req.method = "GET" /\ handlers[h].req.mode = "navigate")
      => handlers[h].pc # "rejected"

\* C4 (as claimed): a GET navigation whose network fetch succeeded ends by
\* returning the live response, with the shell entry of the current store
\* equal to that response.
C4_NavigationLiveAndShell ==
  [][\A h \in H :
       (/\ handlers[h].strategy = "navigate"
        /\ handlers[h].net = "ok"
        /\ InFlight(handlers[h])
        /\ Finished(handlers'[h]))
         => (/\ handlers'[h].pc = "done"
             /\ handlers'[h].result = handlers[h].fresh
             /\ Match(caches', CACHE_NAME, ShellKey(BASE)) = handlers[h].fresh)]_vars

\* C5 (as claimed): a GET navigation whose network fetch failed returns the
\* shell entry of the current store when there is one and the synthesized
\* offline page (status 200, HTML) when there is none, and its steps leave
\* the stores as they were.
C5_NavigationOffline ==
  [][\A h \in H :
       (/\ handlers[h].strategy = "navigate"
        /\ handlers[h].net = "failed"
        /\ InFlight(handlers[h])
        /\ handlers'[h].pc # handlers[h].pc)
         => (/\ caches' = caches
             /\ Finished(handlers'[h]) =>
                  /\ handlers'[h].pc = "done"
                  /\ LET shell == Match(caches, CACHE_NAME, ShellKey(BASE))
                         got == handlers'[h].result
                     IN  IF shell # Undefined THEN got = shell
                         ELSE /\ got.status = 200
                              /\ got.ctype = "text/html; charset=utf-8"
                              /\ got.body = OfflineNotice)]_vars

\* The step at which the cache lookup of cacheFirst settles, for a request
\* the store holds an entry for.
LookupWithEntry(h) ==
  /\ handlers[h].pc = "cf_match"
  /\ handlers'[h].pc # "cf_match"
  /\ Match(caches, CACHE_NAME, handlers[h].req.url) # Undefined

\* C6 (as claimed): when the store holds an entry for the request at lookup
\* time, cacheFirst returns that entry, fetches nothing and writes nothing.
C6_HitReturnsEntry ==
  [][\A h \in H :
       LookupWithEntry(h)
         => (/\ handlers'[h].pc = "done"
             /\ handlers'[h].result = Match(caches, CACHE_NAME, handlers[h].req.url)
             /\ handlers'[h].fetches = 0
             /\ handlers'[h].puts = 0
             /\ caches' = caches)]_vars

\* C6 (amended): when the store holds an entry for the request at lookup
\* time, cacheFirst fetches nothing and writes nothing and ends at once; it
\* returns that entry unless the lookup itself fails, in which case it
\* rejects.
C6_HitReturnsEntryUnlessLookupFails ==
  [][\A h \in H :
       LookupWithEntry(h)
         => (/\ Finished(handlers'[h])
             /\ handlers'[h].pc = "done" =>
                  handlers'[h].result = Match(caches, CACHE_NAME, handlers[h].req.url)
             /\ handlers'[h].fetches = 0
             /\ handlers'[h].puts = 0
             /\ caches' = caches)]_vars

\* C6 witness: a cache-first request was answered with the entry of the
\* store, without a fetch.
C6_Witness ==
  \E h \in H :
    /\ handlers[h].strategy \in {"same-origin", "cdn"}
    /\ handlers[h].pc = "done"
    /\ handlers[h].cached # Undefined
    /\ handlers[h].result = Match(caches, CACHE_NAME, handlers[h].req.url)
    /\ handlers[h].fetches = 0

\* A request r2 identical to a runtime-pattern request r1 that had completed,
\* with a successful network fetch, before r2 was dispatched.
SecondAfterFetched(r1, r2) ==
  /\ r1.strategy = "cdn"
  /\ r1.pc = "done"
  /\ r1.net = "ok"
  /\ r2.pc # "idle"
  /\ r2.req = r1.req
  /\ r2.after

\* C7 (as claimed): after a runtime-pattern request completed with a
\* successful network fetch, a second identical request is served from the
\* cache and fetches nothing.
C7_SecondServedFromCache ==
  \A h \in H :
    LET r1 == handlers[Other(h)]
        r2 == handlers[h]
    IN  SecondAfterFetched(r1, r2)
          => (/\ r2.fetches = 0
              /\ r2.pc \notin {"cf_fetch", "cf_put"}
              /\ Finished(r2) =>
                   (r2.pc = "done" /\ r2.cached # Undefined /\ r2.result = r2.cached))

\* C7 (amended): after a runtime-pattern request completed with a successful
\* network fetch whose response was status 200 or opaque and whose cache
\* write succeeded, a second identical request fetches nothing, and is
\* served the cached entry unless its cache open or lookup fails.
C7_SecondServedFromCacheIfStored ==
  \A h \in H :
    LET r1 == handlers[Other(h)]
        r2 == handlers[h]
    IN  (/\ SecondAfterFetched(r1, r2)
         /\ r1.fresh.status = 200 \/ r1.fresh.type = "opaque"
         /\ r1.stored)
          => (/\ r2.fetches = 0
              /\ r2.pc \notin {"cf_fetch", "cf_put"}
              /\ r2.pc = "done" => (r2.cached # Undefined /\ r2.result = r2.cached))

\* C7 witness: the second of two identical runtime-pattern requests was
\* served the entry the first one stored.
C7_Witness ==
  \E h \in H :
    /\ SecondAfterFetched(handlers[Other(h)], handlers[h])
    /\ handlers[Other(h)].stored
    /\ handlers[h].pc = "done"
    /\ handlers[h].fetches = 0
    /\ handlers[h].result = handlers[Other(h)].fresh

\* ------------------------------------------------------- lifecycle claims
InstallSettled == installPc \in {"done", "rejected"}

\* Every Precache Manifest URL was fetched, with an ok status.
AllFetched == added # <<>> /\ \A i \in DOMAIN PRECACHE_FILES : Ok(added[i])

ManifestKeys == {Resolve(PRECACHE_URLS(BASE)[i]) : i \in DOMAIN PRECACHE_FILES}

\* The current store, if there is one, holds no entry of the manifest.
NothingCommitted ==
  CACHE_NAME \in DOMAIN caches => DOMAIN caches[CACHE_NAME] \cap ManifestKeys = {}

\* The current store holds, for every manifest URL, the response fetched.
AllCommitted ==
  \A i \in DOMAIN PRECACHE_FILES :
    Match(caches, CACHE_NAME, Resolve(PRECACHE_URLS(BASE)[i])) = added[i]

\* The version is not on its way to control clients.
NotCurrent == ~skipWaiting /\ activatePc = "idle"

\* C8 (as claimed): the install step succeeds if and only if every Precache
\* Manifest URL is fetched successfully; otherwise it fails, no manifest entry
\* is committed and the new store is not made current.
C8_InstallIffAllFetched ==
  InstallSettled =>
    /\ (installPc = "done") <=> AllFetched
    /\ ~AllFetched => (installPc = "rejected" /\ NothingCommitted /\ NotCurrent)

\* C8 (amended): the install step succeeds if and only if the store opens,
\* every Precache Manifest URL is fetched with an ok status and the store
\* takes the batch; whenever it fails, no manifest entry is committed,
\* skipWaiting is not called and the version is not activated.
C8_InstallIffAllFetchedAndStored ==
  InstallSettled =>
    /\ (installPc = "done") <=> (AllFetched /\ AllCommitted)
    /\ installPc = "done" => skipWaiting
    /\ installPc = "rejected" => (NothingCommitted /\ NotCurrent)

\* C8 witness: an install failed with some manifest URLs fetched and one not.
C8_Witness ==
  /\ installPc = "rejected"
  /\ added # <<>>
  /\ \E i, j \in DOMAIN PRECACHE_FILES : Ok(added[i]) /\ ~Ok(added[j])

AppStores == {name \in DOMAIN caches : startsWith(name, <<"webtools-cache-">>)}

\* C9 (as claimed): once the activate step has run, the only store whose name
\* starts with "webtools-cache-" is the current version's.
C9_OneAppStoreAfterActivate ==
  activatePc \in {"done", "rejected"} => AppStores = {CACHE_NAME}

\* C9 (amended): once the activate step has completed successfully (the
\* enumeration and every deletion succeeded), the only store whose name starts
\* with "webtools-cache-" is the current version's.
C9_OneAppStoreAfterSuccessfulActivate ==
  activatePc = "done" => AppStores = {CACHE_NAME}

\* C9 witness: activate completed after deleting the stores of two earlier
\* versions, next to a store of another script.
C9_Witness ==
  /\ activatePc = "done"
  /\ Cardinality({key \in DOMAIN deletions : deletions[key] = "deleted"}) = 2
  /\ <<"fonts-cache">> \in DOMAIN caches

\* C10 (as claimed): when the deletion of a stale store fails, the activate
\* step still calls clients.claim(), and the other deletions still take effect.
C10_FailedDeletionDoesNotBlockClaim ==
  /\ (activatePc \in {"done", "rejected"}
        /\ \E key \in DOMAIN deletions : deletions[key] = "failed")
       => claimed
  /\ \A key \in DOMAIN deletions : deletions[key] = "deleted" => key \notin DOMAIN caches

\* ------------------------------------------------------ cache-first claims
CacheFirst(r) == r.strategy \in {"same-origin", "cdn"}

\* Status 200 or opaque, read off the response itself.
Storable(response) == response.status = 200 \/ response.type = "opaque"

\* C11: on a cache miss whose network fetch succeeds, cacheFirst never
\* rejects and returns the live response after exactly one fetch; a response
\* that is status 200 or opaque is written once, and the store takes it as
\* the request's entry exactly when that write succeeds; a response that is
\* neither is returned without any write and leaves the stores as they were.
C11_MissReturnsLive ==
  [][\A h \in H :
       LET r == handlers[h]
           s == handlers'[h]
           live == s.fresh
       IN  (/\ CacheFirst(r)
            /\ r.pc \in {"cf_fetch", "cf_put"}
            /\ s.pc # r.pc
            /\ s.net = "ok")
             => /\ s.pc \in {"cf_put", "done"}
                /\ s.fetches = 1
                /\ s.pc = "cf_put" => (Storable(live) /\ caches' = caches)
                /\ s.pc = "done" =>
                     /\ s.result = live
                     /\ s.puts = (IF Storable(live) THEN 1 ELSE 0)
                     /\ s.stored => Storable(live)
                     /\ caches' = (IF s.stored
                                   THEN Put(caches, CACHE_NAME, r.req.url, live)
                                   ELSE caches)
                     /\ s.stored => Match(caches', CACHE_NAME, r.req.url) = live]_vars

\* C11 witness: a cache-first miss returned the live response although the
\* write of its copy failed, and the store has no entry for the request.
C11_Witness ==
  \E h \in H :
    /\ CacheFirst(handlers[h])
    /\ handlers[h].pc = "done"
    /\ handlers[h].net = "ok"
    /\ handlers[h].puts = 1
    /\ ~handlers[h].stored
    /\ handlers[h].result = handlers[h].fresh
    /\ Match(caches, CACHE_NAME, handlers[h].req.url) = Undefined

\* The step at which the network fetch of cacheFirst fails.
FetchFails(h) ==
  /\ CacheFirst(handlers[h])
  /\ handlers[h].pc = "cf_fetch"
  /\ handlers'[h].net = "failed"

CurrentKeys(cs) == IF CACHE_NAME \in DOMAIN cs THEN DOMAIN cs[CACHE_NAME] ELSE {}

\* C13 (as claimed): once the current store holds an entry for a key, no
\* step of any fetch handler replaces it.
C13_EntryNeverReplaced ==
  [][\A k \in CurrentKeys(caches) :
       Match(caches', CACHE_NAME, k) = Match(caches, CACHE_NAME, k)]_vars

\* C13 (amended): a cache-first handler whose lookup found an entry fetches
\* nothing and writes nothing; an entry the current store holds is never
\* removed, and is replaced only by the write of a navigation handler (the
\* shell key, with the live response) or by the write of a cache-first
\* handler for that key whose own lookup had found nothing.
C13_EntryReplacedOnlyByNavigationOrMiss ==
  [][/\ \A h \in H :
          (CacheFirst(handlers'[h]) /\ handlers'[h].cached # Undefined)
            => (handlers'[h].fetches = 0 /\ handlers'[h].puts = 0)
     /\ \A k \in CurrentKeys(caches) :
          Match(caches', CACHE_NAME, k) # Match(caches, CACHE_NAME, k)
            => \E h \in H :
                 LET r == handlers[h]
                 IN  /\ handlers'[h].stored
                     /\ handlers'[h].puts = r.puts + 1
                     /\ Match(caches', CACHE_NAME, k) = r.fresh
                     /\ \/ r.pc = "nav_put" /\ k = ShellKey(BASE)
                        \/ r.pc = "cf_put" /\ k = r.req.url /\ r.cached = Undefined]_vars

\* C13 witness: a cache-first request for the application shell was served,
\* from the store, a response other than the one precached at install (a
\* navigation had replaced the entry).
C13_Witness ==
  \E h \in H :
    /\ CacheFirst(handlers[h])
    /\ handlers[h].pc = "done"
    /\ handlers[h].req.url = ShellKey(BASE)
    /\ handlers[h].fetches = 0
    /\ handlers[h].result = handlers[h].cached
    /\ handlers[h].result # PrecacheResponse
    /\ handlers[Other(h)].strategy = "navigate"
    /\ handlers[Other(h)].stored

\* ------------------------------------------------------ concurrency claims
\* The cache key a handler looks up and writes: the request itself in
\* cacheFirst, the fixed shell key in the navigation fallback.
KeyOf(r) == IF r.strategy = "navigate" THEN ShellKey(BASE) ELSE r.req.url

\* The step at which a handler's cache write takes effect.
Writes(h) == handlers'[h].stored /\ handlers'[h].puts = handlers[h].puts + 1

\* Both handlers substitute a response and are in flight at the same time.
BothInFlight(r, o) ==
  /\ r.responded = 1 /\ InFlight(r)
  /\ o.responded = 1 /\ InFlight(o)

\* C14 (as claimed): while two handlers for requests with different URLs are
\* in flight, a cache write of one never touches the key the other looks up
\* and writes.
C14_DifferentUrlsDifferentKeys ==
  [][\A h \in H :
       LET r == handlers[h]
           o == handlers[Other(h)]
       IN  (BothInFlight(r, o) /\ r.req.url # o.req.url /\ Writes(h))
             => Match(caches', CACHE_NAME, KeyOf(o)) = Match(caches, CACHE_NAME, KeyOf(o))]_vars

\* C14 (amended): every handler writes only under its own key and is
\* answered from the store only with the entry under its own key, where the
\* key of a cache-first handler is its request and the key of a navigation
\* handler is the shell key, whatever its URL; so while two cache-first
\* handlers for different URLs are in flight, a write of one never touches
\* the key of the other.
C14_CacheFirstKeysIndependent ==
  [][\A h \in H :
       LET r == handlers[h]
           s == handlers'[h]
           o == handlers[Other(h)]
       IN  /\ Writes(h) => caches' = Put(caches, CACHE_NAME, KeyOf(r), r.fresh)
           /\ (r.pc \in {"cf_match", "nav_catch_match"} /\ s.pc = "done")
                => \/ s.result = Match(caches, CACHE_NAME, KeyOf(r))
                   \/ /\ r.strategy = "navigate"
                      /\ Match(caches, CACHE_NAME, KeyOf(r)) = Undefined
                      /\ s.result = OfflineResponse
           /\ (/\ BothInFlight(r, o)
               /\ CacheFirst(r) /\ CacheFirst(o)
               /\ r.req.url # o.req.url)
                => /\ KeyOf(r) # KeyOf(o)
                   /\ Match(caches', CACHE_NAME, KeyOf(o)) # Match(caches, CACHE_NAME, KeyOf(o))
                        => (Writes(Other(h)) /\ ~Writes(h))]_vars

\* C14 witness: of two cache-first handlers for different URLs in flight at
\* the same time, one has stored its response while the other is still
\* under way.
C14_Witness ==
  \E h \in H :
    LET r == handlers[h]
        o == handlers[Other(h)]
    IN  /\ CacheFirst(r) /\ CacheFirst(o)
        /\ r.req.url # o.req.url
        /\ r.pc = "done" /\ r.stored
        /\ InFlight(o)
        /\ ~r.after /\ ~o.after
        /\ Match(caches, CACHE_NAME, KeyOf(o)) = Undefined

\* ------------------------------------------------------ offline-page claim
\* C15: once the install of the current version has succeeded, the current
\* store holds an entry under the shell key through every later activate and
\* fetch step, and a GET navigation whose network fetch fails and that is
\* answered is answered with that entry, never with the synthesized offline
\* page; no handler returns the synthesized page after a successful install.
C15_NoOfflinePageAfterInstall ==
  /\ installPc = "done" => Match(caches, CACHE_NAME, ShellKey(BASE)) # Undefined
  /\ \A h \in H :
       LET r == handlers[h]
       IN  /\ (r.strategy = "navigate" /\ r.net = "failed" /\ r.pc = "done")
                => (/\ installPc = "done"
                    /\ r.cached # Undefined
                    /\ r.result = r.cached
                    /\ r.result # OfflineResponse)
           /\ r.result = OfflineResponse => installPc # "done"

\* C15 witness: after install and an activate that deleted the previous
\* version's store, a navigation whose network fetch failed was answered
\* with the shell entry.
C15_Witness ==
  \E h \in H :
    /\ installPc = "done"
    /\ activatePc = "done"
    /\ handlers[h].strategy = "navigate"
    /\ handlers[h].net = "failed"
    /\ handlers[h].pc = "done"
    /\ handlers[h].result = Match(caches, CACHE_NAME, ShellKey(BASE))
    /\ handlers[h].result # Undefined

\* ------------------------------------------------------- base-prefix claim
\* C16: for every registration scope path, the Base Prefix ends with "/",
\* is the path itself when the path already ends with "/" and the path with
\* one "/" appended otherwise, and no step changes it or the scope path.
C16_BaseEndsWithSeparator ==
  /\ [](/\ Len(BASE) >= 1
        /\ BASE[Len(BASE)] = "/"
        /\ IF SCOPE_PATH[Len(SCOPE_PATH)] = "/"
           THEN BASE = SCOPE_PATH
           ELSE BASE = Append(SCOPE_PATH, "/"))
  /\ [][BASE' = BASE /\ SCOPE_PATH' = SCOPE_PATH]_vars

\* C16 witness: a scope path without a trailing separator got one appended,
\* and the Base Prefix is still that after install and activate.
C16_Witness ==
  /\ SCOPE_PATH = <<"/", "WebTools">>
  /\ BASE = <<"/", "WebTools", "/">>
  /\ installPc = "done"
  /\ activatePc = "done"

\* ----------------------------------------------------- skip-waiting claim
\* The precache has failed: the store did not open, or addAll settled
\* without every manifest URL fetched and stored.
PrecacheFailed ==
  \/ installPc = "rejected"
  \/ added # <<>> /\ ~(AllFetched /\ AllCommitted)

\* C17: skipWaiting is called only by a step taken when every Precache
\* Manifest URL has been fetched and is stored in the current store; once the
\* precache has failed, the install promise is rejected and skipWaiting is
\* not called, then or later.
C17_SkipWaitingAfterPrecache ==
  /\ [](/\ skipWaiting => (AllFetched /\ AllCommitted /\ installPc = "done")
        /\ PrecacheFailed => (installPc = "rejected" /\ ~skipWaiting))
  /\ [][/\ (skipWaiting' /\ ~skipWaiting) => (AllFetched /\ AllCommitted)
        /\ PrecacheFailed => (PrecacheFailed' /\ ~skipWaiting')]_vars

\* C17 witness: skipWaiting was called, with all four manifest URLs stored
\* under four different keys of the current store.
C17_Witness ==
  /\ skipWaiting
  /\ installPc = "done"
  /\ ManifestKeys \subseteq CurrentKeys(caches)
  /\ Cardinality(ManifestKeys) = Len(PRECACHE_FILES)

\* ------------------------------------------------- navigation write claim
\* C18 (as claimed): a navigation handler whose network fetch succeeded has
\* returned the fresh response while the cache open and the cache write of
\* the copy are still outstanding.
C18_NavigationPutFireAndForget ==
  \A h \in H :
    (/\ handlers[h].strategy = "navigate"
     /\ handlers[h].net = "ok"
     /\ handlers[h].pc \in {"nav_open", "nav_put"})
      => handlers[h].result = handlers[h].fresh

\* ------------------------------------------------ concurrent-misses claim
\* The lookup of cacheFirst found nothing and the handler went on to fetch.
Missed(r) ==
  /\ CacheFirst(r)
  /\ r.cached = Undefined
  /\ r.pc \in {"cf_fetch", "cf_put"} \/ (Finished(r) /\ r.net # "")

\* Two cache-first handlers for the same request, in flight at the same
\* time, whose lookups both found nothing.
ConcurrentMisses(r, o) ==
  /\ Missed(r) /\ Missed(o)
  /\ r.req = o.req
  /\ ~r.after /\ ~o.after

\* C19 (as claimed): of two concurrent cache-first misses for the same key
\* whose network fetches succeed, each fetches once, writes at most once and
\* returns its own live response, and when both have finished the store
\* holds an entry for the key, that of one of the two.
C19_ConcurrentMissesLastWriteWins ==
  \A h \in H :
    LET r == handlers[h]
        o == handlers[Other(h)]
        entry == Match(caches, CACHE_NAME, r.req.url)
    IN  ConcurrentMisses(r, o)
          => /\ r.fetches <= 1 /\ r.puts <= 1
             /\ (Finished(r) /\ r.net = "ok")
                  => (r.pc = "done" /\ r.fetches = 1 /\ r.result = r.fresh)
             /\ (Finished(r) /\ r.net = "ok" /\ Finished(o) /\ o.net = "ok")
                  => (entry # Undefined /\ entry \in {r.fresh, o.fresh})

\* C19 (amended): of two concurrent cache-first misses for the same key,
\* each fetches once and writes at most once; one whose fetch succeeds
\* returns its own live response and one whose fetch fails rejects; every
\* write that succeeds makes the entry the writer's response, so that when
\* both have finished the entry is the response of a handler whose write
\* succeeded (the last one), and there is no entry when no write succeeded.
C19_ConcurrentMissesLastSuccessfulWriteWins ==
  /\ [](\A h \in H :
          LET r == handlers[h]
              o == handlers[Other(h)]
              entry == Match(caches, CACHE_NAME, r.req.url)
          IN  ConcurrentMisses(r, o)
                => /\ r.fetches <= 1 /\ r.puts <= 1
                   /\ Finished(r) => r.fetches = 1
                   /\ r.pc = "done" => (r.net = "ok" /\ r.result = r.fresh)
                   /\ r.pc = "rejected" => (r.net = "failed" /\ r.puts = 0)
                   /\ r.stored => (r.puts = 1 /\ Storable(r.fresh))
                   /\ (Finished(r) /\ Finished(o))
                        => IF r.stored \/ o.stored
                           THEN \/ r.stored /\ entry = r.fresh
                                \/ o.stored /\ entry = o.fresh
                           ELSE entry = Undefined)
  /\ [][\A h \in H :
          (ConcurrentMisses(handlers[h], handlers[Other(h)]) /\ Writes(h))
            => Match(caches', CACHE_NAME, handlers[h].req.url) = handlers[h].fresh]_vars

\* C19 witness: two concurrent misses for the same key both stored their
\* responses, which differ, and the entry is one of the two.
C19_Witness ==
  \E h \in H :
    LET r == handlers[h]
        o == handlers[Other(h)]
    IN  /\ ConcurrentMisses(r, o)
        /\ r.pc = "done" /\ o.pc = "done"
        /\ r.stored /\ o.stored
        /\ r.fresh # o.fresh
        /\ Match(caches, CACHE_NAME, r.req.url) = o.fresh

\* ---------------------------------------------------------- activate claim
\* C20: a step of activate removes only stores whose name starts with
\* "webtools-cache-" and is not CACHE_NAME, and leaves the contents of every
\* store it keeps as they were; clients.claim() is called only by a step
\* taken when every deletion activate started has completed, and once it
\* is called none of those stores is left.
C20_ActivateDeletesOnlyStale ==
  /\ [](claimed =>
          /\ \A key \in DOMAIN deletions : deletions[key] = "deleted"
          /\ AppStores = {CACHE_NAME})
  /\ [][installPc = "done" =>
          /\ \A n \in DOMAIN caches \ DOMAIN caches' :
               startsWith(n, <<"webtools-cache-">>) /\ n # CACHE_NAME
          /\ DOMAIN caches' \subseteq DOMAIN caches
          /\ \A n \in DOMAIN caches' : caches'[n] = caches[n]
          /\ (claimed' /\ ~claimed)
               => \A key \in DOMAIN deletions :
                    deletions[key] = "deleted" /\ key \notin DOMAIN caches]_vars

\* C20 witness: activate deleted the stores of two earlier versions and
\* called clients.claim(), with the store of another script and the
\* precached current store kept as they were.
C20_Witness ==
  /\ claimed
  /\ Cardinality(DOMAIN deletions) = 2
  /\ <<"fonts-cache">> \in DOMAIN caches
  /\ caches[<<"fonts-cache">>] = OldStore
  /\ ManifestKeys \subseteq CurrentKeys(caches)

====
